---- MODULE Spec2Model ----
(***************************************************************************)
(* Model of redis-helper (src/index.js): the module-level circuit breaker, *)
(* the availability gate, getData and the cache-aside operation getOrSet   *)
(* with the setData it calls, each async function cut at its await points. *)
(* CacheSpec runs getOrSet against the store and the client's events (the  *)
(* breaker closes there by the 'ready' event); BreakerSpec runs the breaker *)
(* in time, with recovery timers, under failing direct reads.              *)
(***************************************************************************)
EXTENDS Integers, Sequences, FiniteSets, TLC

VARIABLES
    initPhase,      \* "none": redisClient is null; "connecting": initRedis awaits connect(); "done"
    isReady,        \* redisClient.isReady
    isCircuitOpen,  \* index.js:9
    failureCount,   \* index.js:10
    timers,         \* pending setTimeout callbacks of openCircuit: remaining ms, oldest first
    sinceOpen,      \* history: ms elapsed since the latest Closed -> Open transition
    store,          \* the backing store: physical key -> entry
    call,           \* the operation in flight (one async call and its position)
    inflight,       \* store commands of other concurrent operations, issued and not yet settled
    currentConfig,  \* index.js:14-25; its socket field is a reference into sockets
    sockets,        \* the heap of socket-settings objects, by reference
    returned,       \* the object getConfig() last returned to the caller
    published,      \* messages handed to the transport: <<channel, payload>>
    listeners,      \* channels with a listener registered on the subscriber
    delivery        \* the latest run of the subscribe listener (index.js:363-370)

configVars == <<currentConfig, sockets, returned>>
pubsubVars == <<published, listeners, delivery>>
vars == <<initPhase, isReady, isCircuitOpen, failureCount, timers, sinceOpen, store, call,
          inflight, currentConfig, sockets, returned, published, listeners, delivery>>
breakerVars == <<isCircuitOpen, failureCount, timers, sinceOpen>>
clientVars == <<initPhase, isReady>>

----------------------------------------------------------------------------
(* Program constants *)

FAILURE_THRESHOLD == 3
RECOVERY_TIME == 30000
keyPrefix == "myapp:"
defaultTtl == 3600
connectTimeout == 10000

(* Bounds of the model *)

MaxFailureCount == 4      \* failures are not generated beyond this count
MaxTimers == 2            \* 'ready' events stop while this many recovery timers are pending
TicksPerWindow == 3       \* granularity of time: ticks per recovery window
MaxInFlight == 2          \* store commands of other operations in flight at once
TtlSteps == 2             \* granularity of a key's remaining time to live

TickMs == RECOVERY_TIME \div TicksPerWindow

----------------------------------------------------------------------------
(* JavaScript values, by type and JSON text (strings: their contents) *)

VNull == [type |-> "null", text |-> "null"]
VUndefined == [type |-> "undefined", text |-> ""]
VCyclic == [type |-> "cyclic", text |-> ""]
VNum1 == [type |-> "number", text |-> "1"]
VObj == [type |-> "object", text |-> "{\"id\":1}"]
VStr(s) == [type |-> "string", text |-> s]
VInt(n) == [type |-> "number", text |-> ToString(n)]
VBool(b) == [type |-> "boolean", text |-> IF b THEN "true" ELSE "false"]
NoValue == [type |-> "none", text |-> ""]

Strings == {"X", "", "1"}
JsonValues == {VNull, VNum1, VObj} \cup {VStr(s) : s \in Strings}
HandlerValues == JsonValues \cup {VUndefined, VCyclic}
HandlerErrors == {"HandlerError1", "HandlerError2"}
Keys == {"user:1"}
TtlInputs == {0, defaultTtl}
SetInputs == JsonValues \cup {VCyclic}
ExpireInputs == {2 * defaultTtl}
Channels == {"user-events"}
PublishInputs == {VStr("X"), VObj, VCyclic}
TtlOverrides == {60}
TimeoutInputs == {5000}
MessageInputs == {"{\"id\":1}", "X", "1"}

\* JSON.stringify(value) for a JSON-representable value
JsonStringify(v) == IF v.type = "string" THEN "\"" \o v.text \o "\"" ELSE v.text

\* JSON.stringify throws on a cyclic structure
StringifyThrows(v) == v.type = "cyclic"

\* index.js:154  typeof value === 'string' ? value : JSON.stringify(value)
stringValue(v) == IF v.type = "string" THEN v.text ELSE JsonStringify(v)

\* JSON.parse(raw): the value whose JSON text is raw, if any
JsonParses(raw) == \E v \in JsonValues : JsonStringify(v) = raw
JsonParse(raw) == CHOOSE v \in JsonValues : JsonStringify(v) = raw

\* a key used as it is given
getKey_noPrefix(key) == key

\* index.js:136-138
getKey(key) == currentConfig.keyPrefix \o key

PhysKeys == {keyPrefix \o k : k \in Keys}

\* the keys of the store: the prefixed keys and the same names without prefix
StoreKeys == PhysKeys \cup Keys

\* no object returned by getConfig yet
NoConfig == [keyPrefix |-> "", defaultTtl |-> 0, socket |-> "none"]

Absent ==
    [present |-> FALSE, raw |-> "", ttl |-> -2, src |-> NoValue, writer |-> "",
     reqTtl |-> 0, retimed |-> FALSE]

\* index.js:179-183: what getData returns for the reply of redisClient.get
decodeReply(entry, parseJson) ==
    IF ~entry.present \/ entry.raw = "" THEN VNull
    ELSE IF parseJson
         THEN IF JsonParses(entry.raw) THEN JsonParse(entry.raw) ELSE VStr(entry.raw)
         ELSE VStr(entry.raw)

\* a write that always uses set, never setEx
writeEntry_noExpiry(value, ttl, who) ==
    [present |-> TRUE, raw |-> stringValue(value),
     ttl |-> -1, src |-> value, writer |-> who,
     reqTtl |-> ttl, retimed |-> FALSE]

\* index.js:156-157: setEx when ttl is truthy, set otherwise
writeEntry(value, ttl, who) ==
    [present |-> TRUE, raw |-> stringValue(value),
     ttl |-> IF ttl # 0 THEN ttl ELSE -1, src |-> value, writer |-> who,
     reqTtl |-> ttl, retimed |-> FALSE]

----------------------------------------------------------------------------
(* Circuit breaker *)

\* the gate without the breaker's flag
isAvailable_ignoresCircuit == initPhase # "none" /\ isReady

\* the gate without the state of the client
isAvailable_ignoresClient == ~isCircuitOpen

\* index.js:45-47
isAvailable == initPhase # "none" /\ isReady /\ ~isCircuitOpen

\* opening without scheduling the recovery
openCircuit_noTimer ==
    IF ~isCircuitOpen
    THEN /\ isCircuitOpen' = TRUE
         /\ sinceOpen' = 0
         /\ UNCHANGED timers
    ELSE UNCHANGED <<isCircuitOpen, timers, sinceOpen>>

\* opening without the test of the flag
openCircuit_unguarded ==
    /\ isCircuitOpen' = TRUE
    /\ timers' = Append(timers, RECOVERY_TIME)
    /\ sinceOpen' = 0

\* index.js:30-40
openCircuit ==
    IF ~isCircuitOpen
    THEN /\ isCircuitOpen' = TRUE
         /\ timers' = Append(timers, RECOVERY_TIME)
         /\ sinceOpen' = 0
    ELSE UNCHANGED <<isCircuitOpen, timers, sinceOpen>>

\* the threshold compared with > instead of >=
countFailure_strict ==
    /\ failureCount' = failureCount + 1
    /\ IF failureCount + 1 > FAILURE_THRESHOLD
       THEN openCircuit
       ELSE UNCHANGED <<isCircuitOpen, timers, sinceOpen>>

\* the catch idiom of every operation, e.g. index.js:186-187
countFailure ==
    /\ failureCount' = failureCount + 1
    /\ IF failureCount + 1 >= FAILURE_THRESHOLD
       THEN openCircuit
       ELSE UNCHANGED <<isCircuitOpen, timers, sinceOpen>>

\* a timer callback that closes the breaker and keeps the count
RecoveryTimerFires_keepsCount ==
    /\ timers # <<>>
    /\ Head(timers) = 0
    /\ timers' = Tail(timers)
    /\ isCircuitOpen' = FALSE
    /\ UNCHANGED <<failureCount, sinceOpen, initPhase, isReady, store, call>>
    /\ UNCHANGED <<inflight, configVars, pubsubVars>>

\* index.js:34-38, the setTimeout callback
RecoveryTimerFires ==
    /\ timers # <<>>
    /\ Head(timers) = 0
    /\ timers' = Tail(timers)
    /\ isCircuitOpen' = FALSE
    /\ failureCount' = 0
    /\ UNCHANGED <<sinceOpen, initPhase, isReady, store, call>>
    /\ UNCHANGED <<inflight, configVars, pubsubVars>>

\* time passes by one tick; a due timer fires before time passes further
Tick ==
    /\ IF timers = <<>>
       THEN isCircuitOpen /\ sinceOpen < RECOVERY_TIME
       ELSE Head(timers) > 0
    /\ timers' = [i \in 1..Len(timers) |-> IF timers[i] > TickMs THEN timers[i] - TickMs ELSE 0]
    /\ sinceOpen' = IF ~isCircuitOpen THEN sinceOpen
                    ELSE IF sinceOpen + TickMs < RECOVERY_TIME THEN sinceOpen + TickMs
                    ELSE RECOVERY_TIME
    /\ UNCHANGED <<isCircuitOpen, failureCount, initPhase, isReady, store, call>>
    /\ UNCHANGED <<inflight, configVars, pubsubVars>>

----------------------------------------------------------------------------
(* initRedis and the client's events *)

\* index.js:54-86 up to the await, called with no overrides: the merged
\* configuration holds a new socket object with the fields of the old one
InitRedis ==
    /\ initPhase = "none"
    /\ initPhase' = "connecting"
    /\ isReady' = FALSE
    /\ currentConfig' = [currentConfig EXCEPT !.socket = "merged"]
    /\ sockets' = sockets @@ ("merged" :> sockets[currentConfig.socket])
    /\ UNCHANGED <<breakerVars, store, call, inflight, returned, pubsubVars>>

\* index.js:82-86: connect() of all three clients resolved
ConnectResolves ==
    /\ initPhase = "connecting"
    /\ isReady
    /\ initPhase' = "done"
    /\ UNCHANGED <<isReady, breakerVars, store, call>>
    /\ UNCHANGED <<inflight, configVars, pubsubVars>>

\* index.js:88-91: connect() rejected
ConnectRejects ==
    /\ initPhase = "connecting"
    /\ initPhase' = "done"
    /\ openCircuit
    /\ UNCHANGED <<isReady, failureCount, store, call>>
    /\ UNCHANGED <<inflight, configVars, pubsubVars>>

\* index.js:76-80: the 'ready' listener
ClientReady ==
    /\ initPhase # "none"
    /\ ~isReady
    /\ Len(timers) < MaxTimers
    /\ isReady' = TRUE
    /\ isCircuitOpen' = FALSE
    /\ failureCount' = 0
    /\ UNCHANGED <<initPhase, timers, sinceOpen, store, call>>
    /\ UNCHANGED <<inflight, configVars, pubsubVars>>

\* index.js:69-73: the 'error' listener; the socket may have dropped
ClientError ==
    /\ initPhase # "none"
    /\ failureCount < MaxFailureCount
    /\ countFailure
    /\ \E r \in {isReady, FALSE} : isReady' = r
    /\ UNCHANGED <<initPhase, store, call>>
    /\ UNCHANGED <<inflight, configVars, pubsubVars>>

\* the store's TTL mechanism removes an entry that has an expiry
KeyExpires ==
    /\ \E k \in PhysKeys :
         /\ store[k].present
         /\ store[k].ttl > 0
         /\ store' = [store EXCEPT ![k] = Absent]
    /\ UNCHANGED <<clientVars, breakerVars, call>>
    /\ UNCHANGED <<inflight, configVars, pubsubVars>>

\* the store's clock: a key with an expiry has less time to live
TtlElapses ==
    /\ \E k \in PhysKeys :
         /\ store[k].present
         /\ store[k].ttl > defaultTtl \div TtlSteps
         /\ store' = [store EXCEPT ![k].ttl = @ - defaultTtl \div TtlSteps]
    /\ UNCHANGED <<clientVars, breakerVars, call>>
    /\ UNCHANGED <<inflight, configVars, pubsubVars>>

----------------------------------------------------------------------------
(* The operation in flight *)

NoOutcome == [kind |-> "none", val |-> NoValue, err |-> ""]
Returned(v) == [kind |-> "return", val |-> v, err |-> ""]
Thrown(e) == [kind |-> "throw", val |-> NoValue, err |-> e]

NewCall(name, key, ttl, parseJson) ==
    [name |-> name, pc |-> "start", key |-> key, ttl |-> ttl, parseJson |-> parseJson,
     startOpen |-> isCircuitOpen, startReady |-> initPhase # "none" /\ isReady,
     computeCalls |-> 0, lastCompute |-> NoOutcome, firstCompute |-> NoOutcome,
     storeReads |-> 0, storeWrites |-> 0,
     cachedData |-> NoValue, readSrc |-> NoValue, readError |-> FALSE,
     freshData |-> NoValue, writeError |-> "",
     value |-> NoValue, addr |-> "", cmdFailed |-> FALSE,
     outcome |-> NoOutcome]

IdleCall == [NewCall("", "", 0, TRUE) EXCEPT !.pc = "idle", !.startOpen = FALSE, !.startReady = FALSE]

Finish(c, out) == [c EXCEPT !.pc = "done", !.outcome = out]

\* handler() is invoked: index.js:206, 220, 234
InvokeHandler(c, at) == [c EXCEPT !.pc = at, !.computeCalls = @ + 1]

\* the handler's promise settled with out
HandlerSettled(c, out) ==
    [c EXCEPT !.lastCompute = out,
              !.firstCompute = IF @.kind = "none" THEN out ELSE @]

\* a catch block that also tries to write before it falls back
getOrSetCatch_writes(c, error) ==
    [InvokeHandler(c, "fallback") EXCEPT !.storeWrites = @ + 1]

\* a catch block that re-raises what it caught
getOrSetCatch_rethrow(c, error) == Finish(c, Thrown(error))

\* index.js:229-235: the catch block of getOrSet
getOrSetCatch(c, error) == InvokeHandler(c, "fallback")

\* a hit test that never succeeds
isCacheHit_never(cachedData) == FALSE

\* index.js:212: cachedData !== null
isCacheHit(cachedData) == cachedData # VNull

\* a test that lets every result be written
isCacheable_always(freshData) == TRUE

\* index.js:223: freshData !== null && freshData !== undefined
isCacheable(freshData) == freshData # VNull /\ freshData # VUndefined

\* index.js:201-210: getOrSet up to its first await
GetOrSetStart ==
    /\ call.pc \in {"idle", "done"}
    /\ \E key \in Keys, ttl \in TtlInputs, parseJson \in BOOLEAN :
         LET c == NewCall("getOrSet", key, ttl, parseJson) IN
         call' = IF ~isAvailable
                 THEN InvokeHandler(c, "bypass")
                 ELSE [c EXCEPT !.pc = "reading", !.storeReads = 1]
    /\ UNCHANGED <<clientVars, breakerVars, store>>
    /\ UNCHANGED <<inflight, configVars, pubsubVars>>

\* index.js:206: the handler called with the cache unavailable settles
BypassHandlerSettles ==
    /\ call.name = "getOrSet" /\ call.pc = "bypass"
    /\ \/ \E v \in HandlerValues :
            call' = Finish(HandlerSettled(call, Returned(v)), Returned(v))
       \/ \E e \in HandlerErrors :
            call' = getOrSetCatch(HandlerSettled(call, Thrown(e)), e)
    /\ UNCHANGED <<clientVars, breakerVars, store>>
    /\ UNCHANGED <<inflight, configVars, pubsubVars>>

\* index.js:178-189 and 210-220: redisClient.get settles inside getOrSet
CacheReadSettles ==
    /\ call.name = "getOrSet" /\ call.pc = "reading"
    /\ \/ LET entry == store[getKey(call.key)]
              cachedData == decodeReply(entry, call.parseJson)
              c == [call EXCEPT !.cachedData = cachedData,
                                !.readSrc = IF entry.writer = "getOrSet" THEN entry.src ELSE NoValue]
          IN /\ call' = IF isCacheHit(cachedData)
                        THEN Finish(c, Returned(cachedData))
                        ELSE InvokeHandler(c, "handler")
             /\ UNCHANGED breakerVars
       \/ /\ failureCount < MaxFailureCount
          /\ countFailure
          /\ call' = getOrSetCatch([call EXCEPT !.readError = TRUE], "StoreError")
    /\ UNCHANGED <<clientVars, store>>
    /\ UNCHANGED <<inflight, configVars, pubsubVars>>

\* index.js:220-228 with setData 146-157: the handler called on a miss settles
MissHandlerSettles ==
    /\ call.name = "getOrSet" /\ call.pc = "handler"
    /\ \/ \E v \in HandlerValues :
            LET c == [HandlerSettled(call, Returned(v)) EXCEPT !.freshData = v] IN
            IF ~isCacheable(v) \/ ~isAvailable
            THEN /\ call' = Finish(c, Returned(v))
                 /\ UNCHANGED breakerVars
            ELSE IF StringifyThrows(v)
            THEN /\ failureCount < MaxFailureCount
                 /\ countFailure
                 /\ call' = getOrSetCatch([c EXCEPT !.writeError = "TypeError"], "TypeError")
            ELSE /\ call' = [c EXCEPT !.pc = "writing", !.storeWrites = @ + 1]
                 /\ UNCHANGED breakerVars
       \/ /\ \E e \in HandlerErrors :
               call' = getOrSetCatch(HandlerSettled(call, Thrown(e)), e)
          /\ UNCHANGED breakerVars
    /\ UNCHANGED <<clientVars, store>>
    /\ UNCHANGED <<inflight, configVars, pubsubVars>>

\* index.js:156-163 and 224-228: setEx / set settles inside getOrSet
WriteThroughSettles ==
    /\ call.name = "getOrSet" /\ call.pc = "writing"
    /\ \/ /\ store' = [store EXCEPT ![getKey(call.key)] =
                          writeEntry(call.freshData, call.ttl, "getOrSet")]
          /\ call' = Finish(call, Returned(call.freshData))
          /\ UNCHANGED breakerVars
       \/ /\ failureCount < MaxFailureCount
          /\ countFailure
          /\ call' = getOrSetCatch([call EXCEPT !.writeError = "StoreError"], "StoreError")
          /\ UNCHANGED store
    /\ UNCHANGED clientVars
    /\ UNCHANGED <<inflight, configVars, pubsubVars>>

\* index.js:234: the handler called from the catch block settles
FallbackHandlerSettles ==
    /\ call.name = "getOrSet" /\ call.pc = "fallback"
    /\ \/ \E v \in HandlerValues :
            call' = Finish(HandlerSettled(call, Returned(v)), Returned(v))
       \/ \E e \in HandlerErrors :
            call' = Finish(HandlerSettled(call, Thrown(e)), Thrown(e))
    /\ UNCHANGED <<clientVars, breakerVars, store>>
    /\ UNCHANGED <<inflight, configVars, pubsubVars>>

----------------------------------------------------------------------------
(* getData called directly *)

\* a catch block that swallows what it caught
directCatch_swallow(c, error) == Finish(c, Returned(VUndefined))

\* index.js:158-163, 184-189, 252-257, 275-280, 299-304, 321-326: the catch
\* block of a direct operation, after it has counted the failure
directCatch(c, error) == Finish(c, Thrown(error))

\* index.js:172-178: getData up to its await
GetDataStart ==
    /\ call.pc \in {"idle", "done"}
    /\ \E key \in Keys, parseJson \in BOOLEAN :
         LET c == NewCall("getData", key, 0, parseJson) IN
         call' = IF ~isAvailable
                 THEN Finish(c, Returned(VNull))
                 ELSE [c EXCEPT !.pc = "reading", !.storeReads = 1, !.addr = getKey(key)]
    /\ UNCHANGED <<clientVars, breakerVars, store>>
    /\ UNCHANGED <<inflight, configVars, pubsubVars>>

\* index.js:178-189: redisClient.get settles
GetDataSettles ==
    /\ call.name = "getData" /\ call.pc = "reading"
    /\ \/ LET cachedData == decodeReply(store[call.addr], call.parseJson) IN
          /\ call' = Finish([call EXCEPT !.cachedData = cachedData,
                                          !.readSrc = store[call.addr].src],
                            Returned(cachedData))
          /\ UNCHANGED breakerVars
       \/ /\ failureCount < MaxFailureCount
          /\ countFailure
          /\ call' = directCatch([call EXCEPT !.readError = TRUE, !.cmdFailed = TRUE],
                                 "StoreError")
    /\ UNCHANGED <<clientVars, store>>
    /\ UNCHANGED <<inflight, configVars, pubsubVars>>

\* index.js:146-154: setData up to its await
SetDataStart ==
    /\ call.pc \in {"idle", "done"}
    /\ \E key \in Keys, value \in SetInputs, ttl \in TtlInputs :
         LET c == [NewCall("setData", key, ttl, TRUE) EXCEPT !.value = value] IN
         IF ~isAvailable
         THEN /\ call' = Finish(c, Returned(VUndefined))
              /\ UNCHANGED breakerVars
         ELSE IF StringifyThrows(value)
         THEN /\ failureCount < MaxFailureCount
              /\ countFailure
              /\ call' = directCatch([c EXCEPT !.addr = getKey(key)], "TypeError")
         ELSE /\ call' = [c EXCEPT !.pc = "writing", !.storeWrites = 1, !.addr = getKey(key)]
              /\ UNCHANGED breakerVars
    /\ UNCHANGED <<clientVars, store, inflight, configVars, pubsubVars>>

\* index.js:156-163: setEx or set settles
SetDataSettles ==
    /\ call.name = "setData" /\ call.pc = "writing"
    /\ \/ /\ store' = [store EXCEPT ![call.addr] = writeEntry(call.value, call.ttl, "setData")]
          /\ call' = Finish(call, Returned(VUndefined))
          /\ UNCHANGED breakerVars
       \/ /\ failureCount < MaxFailureCount
          /\ countFailure
          /\ call' = directCatch([call EXCEPT !.cmdFailed = TRUE], "StoreError")
          /\ UNCHANGED store
    /\ UNCHANGED <<clientVars, inflight, configVars, pubsubVars>>

\* index.js:243-251: deleteData up to its await
DeleteDataStart ==
    /\ call.pc \in {"idle", "done"}
    /\ \E key \in Keys :
         LET c == NewCall("deleteData", key, 0, TRUE) IN
         call' = IF ~isAvailable
                 THEN Finish(c, Returned(VInt(0)))
                 ELSE [c EXCEPT !.pc = "deleting", !.storeWrites = 1, !.addr = getKey(key)]
    /\ UNCHANGED <<clientVars, breakerVars, store, inflight, configVars, pubsubVars>>

\* index.js:251-257: del settles with the number of keys removed
DeleteDataSettles ==
    /\ call.name = "deleteData" /\ call.pc = "deleting"
    /\ \/ /\ store' = [store EXCEPT ![call.addr] = Absent]
          /\ call' = Finish(call, Returned(VInt(IF store[call.addr].present THEN 1 ELSE 0)))
          /\ UNCHANGED breakerVars
       \/ /\ failureCount < MaxFailureCount
          /\ countFailure
          /\ call' = directCatch([call EXCEPT !.cmdFailed = TRUE], "StoreError")
          /\ UNCHANGED store
    /\ UNCHANGED <<clientVars, inflight, configVars, pubsubVars>>

\* index.js:265-273: exists up to its await
ExistsStart ==
    /\ call.pc \in {"idle", "done"}
    /\ \E key \in Keys :
         LET c == NewCall("exists", key, 0, TRUE) IN
         call' = IF ~isAvailable
                 THEN Finish(c, Returned(VBool(FALSE)))
                 ELSE [c EXCEPT !.pc = "asking", !.storeReads = 1, !.addr = getKey(key)]
    /\ UNCHANGED <<clientVars, breakerVars, store, inflight, configVars, pubsubVars>>

\* index.js:273-280: exists settles; result === 1
ExistsSettles ==
    /\ call.name = "exists" /\ call.pc = "asking"
    /\ \/ /\ call' = Finish(call, Returned(VBool(store[call.addr].present)))
          /\ UNCHANGED breakerVars
       \/ /\ failureCount < MaxFailureCount
          /\ countFailure
          /\ call' = directCatch([call EXCEPT !.cmdFailed = TRUE], "StoreError")
    /\ UNCHANGED <<clientVars, store, inflight, configVars, pubsubVars>>

\* index.js:289-297: setTTL up to its await
SetTTLStart ==
    /\ call.pc \in {"idle", "done"}
    /\ \E key \in Keys, ttl \in ExpireInputs :
         LET c == NewCall("setTTL", key, ttl, TRUE) IN
         call' = IF ~isAvailable
                 THEN Finish(c, Returned(VBool(FALSE)))
                 ELSE [c EXCEPT !.pc = "retiming", !.storeWrites = 1, !.addr = getKey(key)]
    /\ UNCHANGED <<clientVars, breakerVars, store, inflight, configVars, pubsubVars>>

\* index.js:297-304: expire settles; result === 1
SetTTLSettles ==
    /\ call.name = "setTTL" /\ call.pc = "retiming"
    /\ \/ /\ store' = IF store[call.addr].present
                      THEN [store EXCEPT ![call.addr].ttl = call.ttl,
                                         ![call.addr].retimed = TRUE]
                      ELSE store
          /\ call' = Finish(call, Returned(VBool(store[call.addr].present)))
          /\ UNCHANGED breakerVars
       \/ /\ failureCount < MaxFailureCount
          /\ countFailure
          /\ call' = directCatch([call EXCEPT !.cmdFailed = TRUE], "StoreError")
          /\ UNCHANGED store
    /\ UNCHANGED <<clientVars, inflight, configVars, pubsubVars>>

\* index.js:312-320: getTTL up to its await
GetTTLStart ==
    /\ call.pc \in {"idle", "done"}
    /\ \E key \in Keys :
         LET c == NewCall("getTTL", key, 0, TRUE) IN
         call' = IF ~isAvailable
                 THEN Finish(c, Returned(VInt(-2)))
                 ELSE [c EXCEPT !.pc = "timing", !.storeReads = 1, !.addr = getKey(key)]
    /\ UNCHANGED <<clientVars, breakerVars, store, inflight, configVars, pubsubVars>>

\* index.js:320-326: ttl settles with the store's reply
GetTTLSettles ==
    /\ call.name = "getTTL" /\ call.pc = "timing"
    /\ \/ /\ call' = Finish(call, Returned(VInt(store[call.addr].ttl)))
          /\ UNCHANGED breakerVars
       \/ /\ failureCount < MaxFailureCount
          /\ countFailure
          /\ call' = directCatch([call EXCEPT !.cmdFailed = TRUE], "StoreError")
    /\ UNCHANGED <<clientVars, store, inflight, configVars, pubsubVars>>

----------------------------------------------------------------------------
(* Publish and subscribe *)

\* a channel named like a key
channelName_prefixed(channel) == getKey(channel)

\* index.js:342, 363: the channel is passed to the transport as given
channelName(channel) == channel

\* index.js:334-341: publish up to its await
PublishStart ==
    /\ call.pc \in {"idle", "done"}
    /\ \E channel \in Channels, message \in PublishInputs :
         LET c == [NewCall("publish", channel, 0, TRUE) EXCEPT !.value = message] IN
         IF ~isAvailable
         THEN /\ call' = Finish(c, Returned(VUndefined))
              /\ UNCHANGED breakerVars
         ELSE IF StringifyThrows(message)
         THEN /\ failureCount < MaxFailureCount
              /\ countFailure
              /\ call' = directCatch(c, "TypeError")
         ELSE /\ call' = [c EXCEPT !.pc = "publishing", !.addr = channelName(channel)]
              /\ UNCHANGED breakerVars
    /\ UNCHANGED <<clientVars, store, inflight, configVars, pubsubVars>>

\* index.js:342-348: publisher.publish settles
PublishSettles ==
    /\ call.name = "publish" /\ call.pc = "publishing"
    /\ \/ /\ published' = published \cup {<<call.addr, stringValue(call.value)>>}
          /\ call' = Finish(call, Returned(VUndefined))
          /\ UNCHANGED breakerVars
       \/ /\ failureCount < MaxFailureCount
          /\ countFailure
          /\ call' = directCatch([call EXCEPT !.cmdFailed = TRUE], "StoreError")
          /\ UNCHANGED published
    /\ UNCHANGED <<clientVars, store, inflight, configVars, listeners, delivery>>

\* index.js:356-363: subscribe up to its await
SubscribeStart ==
    /\ call.pc \in {"idle", "done"}
    /\ \E channel \in Channels :
         LET c == NewCall("subscribe", channel, 0, TRUE) IN
         call' = IF ~isAvailable
                 THEN Finish(c, Returned(VUndefined))
                 ELSE [c EXCEPT !.pc = "subscribing", !.addr = channelName(channel)]
    /\ UNCHANGED <<clientVars, breakerVars, store, inflight, configVars, pubsubVars>>

\* index.js:363-376: subscriber.subscribe settles
SubscribeSettles ==
    /\ call.name = "subscribe" /\ call.pc = "subscribing"
    /\ \/ /\ listeners' = listeners \cup {call.addr}
          /\ call' = Finish(call, Returned(VUndefined))
          /\ UNCHANGED breakerVars
       \/ /\ failureCount < MaxFailureCount
          /\ countFailure
          /\ call' = directCatch([call EXCEPT !.cmdFailed = TRUE], "StoreError")
          /\ UNCHANGED listeners
    /\ UNCHANGED <<clientVars, store, inflight, configVars, published, delivery>>

\* the listener's run for the latest message: the arguments of its calls of
\* callback, in order, and whether the listener itself raised
NoDelivery == [channel |-> "", message |-> "", calls |-> <<>>, raised |-> FALSE]

\* index.js:363-370: the transport hands a message to the listener that
\* subscribe registered; callback returns or throws each time it is called
MessageDelivered ==
    /\ \E channel \in listeners, message \in MessageInputs, throws \in BOOLEAN,
          throwsAgain \in BOOLEAN :
         LET d == [channel |-> channel, message |-> message, calls |-> <<>>, raised |-> FALSE]
         IN  delivery' =
               IF JsonParses(message) /\ ~throws
               THEN [d EXCEPT !.calls = <<JsonParse(message)>>]
               ELSE IF JsonParses(message)
               THEN [d EXCEPT !.calls = <<JsonParse(message), VStr(message)>>,
                              !.raised = throwsAgain]
               ELSE [d EXCEPT !.calls = <<VStr(message)>>, !.raised = throws]
    /\ UNCHANGED <<clientVars, breakerVars, store, call, inflight, configVars,
                   published, listeners>>

----------------------------------------------------------------------------
(* Configuration *)

\* index.js:412: a new object with the fields of currentConfig; its socket
\* field refers to the socket object of currentConfig
GetConfig ==
    /\ returned' = currentConfig
    /\ UNCHANGED <<clientVars, breakerVars, store, call, inflight, currentConfig,
                   sockets, pubsubVars>>

\* the caller assigns to a field of the object it got from getConfig
CallerSetsField ==
    /\ returned # NoConfig
    /\ \E ttl \in TtlOverrides : returned' = [returned EXCEPT !.defaultTtl = ttl]
    /\ UNCHANGED <<clientVars, breakerVars, store, call, inflight, currentConfig,
                   sockets, pubsubVars>>

\* the caller assigns to a field of the socket object of what it got
CallerSetsSocketField ==
    /\ returned # NoConfig
    /\ \E ms \in TimeoutInputs :
         sockets' = [sockets EXCEPT ![returned.socket].connectTimeout = ms]
    /\ UNCHANGED <<clientVars, breakerVars, store, call, inflight, currentConfig,
                   returned, pubsubVars>>

----------------------------------------------------------------------------
(* Other operations running concurrently: each passes the gate, awaits its *)

(* store command and counts a failure in its catch block                   *)

\* e.g. index.js:265-273: exists up to its await
OtherCommandIssued ==
    /\ isAvailable
    /\ inflight < MaxInFlight
    /\ inflight' = inflight + 1
    /\ UNCHANGED <<clientVars, breakerVars, store, call, configVars, pubsubVars>>

\* e.g. index.js:273-280: the command settles
OtherCommandSettles ==
    /\ inflight > 0
    /\ inflight' = inflight - 1
    /\ \/ UNCHANGED breakerVars
       \/ /\ failureCount < MaxFailureCount
          /\ countFailure
    /\ UNCHANGED <<clientVars, store, call, configVars, pubsubVars>>

----------------------------------------------------------------------------
(* Specifications *)

Init ==
    /\ initPhase = "none"
    /\ isReady = FALSE
    /\ isCircuitOpen = FALSE
    /\ failureCount = 0
    /\ timers = <<>>
    /\ sinceOpen = 0
    /\ store = [k \in StoreKeys |-> Absent]
    /\ call = IdleCall
    /\ inflight = 0
    /\ currentConfig = [keyPrefix |-> keyPrefix, defaultTtl |-> defaultTtl, socket |-> "default"]
    /\ sockets = ("default" :> [connectTimeout |-> connectTimeout])
    /\ returned = NoConfig
    /\ published = {}
    /\ listeners = {}
    /\ delivery = NoDelivery

\* the client's lifecycle and events
ClientNext ==
    \/ InitRedis
    \/ ConnectResolves
    \/ ConnectRejects
    \/ ClientReady
    \/ ClientError

\* the cache-aside operation over the store, with the breaker driven by the
\* client's events and by the operation's own failures
CacheNext ==
    \/ ClientNext
    \/ KeyExpires
    \/ GetOrSetStart
    \/ BypassHandlerSettles
    \/ CacheReadSettles
    \/ MissHandlerSettles
    \/ WriteThroughSettles
    \/ FallbackHandlerSettles

\* the breaker in time: failures of direct reads and of concurrent commands,
\* client events, recovery timers
BreakerNext ==
    \/ ClientNext
    \/ RecoveryTimerFires
    \/ Tick
    \/ GetDataStart
    \/ GetDataSettles
    \/ OtherCommandIssued
    \/ OtherCommandSettles

\* the direct operations over the store, one at a time
OpsNext ==
    \/ ClientNext
    \/ KeyExpires
    \/ TtlElapses
    \/ GetDataStart
    \/ GetDataSettles
    \/ SetDataStart
    \/ SetDataSettles
    \/ DeleteDataStart
    \/ DeleteDataSettles
    \/ ExistsStart
    \/ ExistsSettles
    \/ SetTTLStart
    \/ SetTTLSettles
    \/ GetTTLStart
    \/ GetTTLSettles

\* publishing and subscribing, one call at a time
PubSubNext ==
    \/ ClientNext
    \/ PublishStart
    \/ PublishSettles
    \/ SubscribeStart
    \/ SubscribeSettles
    \/ MessageDelivered

\* callers reading the configuration and writing to what they got
ConfigNext ==
    \/ ClientNext
    \/ GetConfig
    \/ CallerSetsField
    \/ CallerSetsSocketField

Next == CacheNext \/ BreakerNext \/ OpsNext \/ PubSubNext \/ ConfigNext

Spec == Init /\ [][Next]_vars

CacheSpec == Init /\ [][CacheNext]_vars

BreakerSpec == Init /\ [][BreakerNext]_vars

OpsSpec == Init /\ [][OpsNext]_vars

PubSubSpec == Init /\ [][PubSubNext]_vars

ConfigSpec == Init /\ [][ConfigNext]_vars

\* time passes and the event loop runs due timers
FairBreakerSpec == BreakerSpec /\ WF_vars(Tick) /\ WF_vars(RecoveryTimerFires)

----------------------------------------------------------------------------
(* Properties *)

GetOrSetDone == call.name = "getOrSet" /\ call.pc = "done"

\* C1: during one getOrSet call the handler (compute) is invoked at most once,
\* whatever the availability, the read, the handler and the write-through do.
C1_ComputeAtMostOnce ==
    call.name = "getOrSet" => call.computeCalls <= 1

\* C2: when the write-through after a miss fails (store error or a value that
\* cannot be serialized), getOrSet still returns the freshly computed value.
C2_WriteFailureReturnsFresh ==
    (GetOrSetDone /\ call.writeError # "") => call.outcome = Returned(call.freshData)

\* C3: when the handler throws e, getOrSet ends by raising that same e; no
\* fallback turns the call into a normal return.
C3_ComputeErrorPropagates ==
    (GetOrSetDone /\ call.firstCompute.kind = "throw") => call.outcome = call.firstCompute

\* C4: when the read inside getOrSet yields a non-null value, getOrSet returns
\* that value and the handler is not invoked during the call.
C4_HitSkipsCompute ==
    (call.name = "getOrSet" /\ call.cachedData \notin {NoValue, VNull})
        => /\ call.pc = "done"
           /\ call.outcome = Returned(call.cachedData)
           /\ call.computeCalls = 0

C4_Witness ==
    /\ GetOrSetDone
    /\ call.cachedData \notin {NoValue, VNull}
    /\ call.outcome.kind = "return"
    /\ call.storeReads = 1

\* C5: a getOrSet call that starts with the breaker Open or the client not
\* ready issues no read and no write to the store, invokes the handler and
\* ends with the handler's outcome.
C5_UnavailableBypassesStore ==
    (call.name = "getOrSet" /\ (call.startOpen \/ ~call.startReady))
        => /\ call.storeReads = 0
           /\ call.storeWrites = 0
           /\ call.computeCalls >= 1
           /\ call.pc = "done" => call.outcome = call.lastCompute

C5_Witness ==
    /\ GetOrSetDone
    /\ call.startOpen
    /\ call.startReady
    /\ call.outcome.kind = "return"
    /\ call.outcome.val = VStr("X")

\* C6: no store error leaves getOrSet: an exception that leaves it was raised
\* by the handler, and after a failed read a handler that returns X makes
\* getOrSet return X.
C6_NoStoreErrorSurfaces ==
    GetOrSetDone
        => /\ call.outcome.kind = "throw"
                => (call.outcome.err \in HandlerErrors /\ call.outcome = call.lastCompute)
           /\ (call.readError /\ call.firstCompute.kind = "return")
                => call.outcome = call.firstCompute

C6_Witness ==
    /\ GetOrSetDone
    /\ call.readError
    /\ call.storeReads = 1
    /\ call.outcome = Returned(VStr("X"))

\* C7: on a cold cache the handler runs exactly once and its result is
\* stored, so that a later getOrSet on the key, reading the entry before it
\* expires, returns that result without invoking its handler.
C7_CacheHitIdempotence ==
    /\ (GetOrSetDone /\ call.cachedData = VNull /\ call.storeWrites = 1 /\ call.writeError = "")
          => (call.computeCalls = 1 /\ call.outcome = Returned(call.freshData))
    /\ (GetOrSetDone /\ call.parseJson /\ call.readSrc # NoValue)
          => (call.outcome = Returned(call.readSrc) /\ call.computeCalls = 0)

\* C8: a counted failure opens the breaker exactly in the step where the count
\* reaches the threshold, a failure while Open neither reopens it nor schedules
\* a recovery, and a getData that starts while the breaker is Open returns null
\* without a read of the store.
C8_OpensAtThreshold ==
    /\ [][failureCount' = failureCount + 1
            => /\ (~isCircuitOpen /\ isCircuitOpen')
                    <=> (~isCircuitOpen /\ failureCount' = FAILURE_THRESHOLD)
               /\ isCircuitOpen => (isCircuitOpen' /\ timers' = timers)]_vars
    /\ []((call.name = "getData" /\ call.startOpen)
            => /\ call.pc = "done"
               /\ call.outcome = Returned(VNull)
               /\ call.storeReads = 0)

C8_Witness ==
    /\ isCircuitOpen
    /\ failureCount = FAILURE_THRESHOLD
    /\ call.name = "getData"
    /\ call.startOpen
    /\ call.startReady
    /\ call.outcome = Returned(VNull)

\* C9: the breaker closes only when the recovery window measured from its
\* latest opening has elapsed.
C9_TimeTriggeredOnly ==
    [][(isCircuitOpen /\ ~isCircuitOpen') => sinceOpen >= RECOVERY_TIME]_vars

\* C10: while the breaker is Open a recovery timer is pending that is due when
\* the window from the opening elapses, a recovery timer that fires leaves the
\* breaker Closed with failureCount 0, and an Open breaker is eventually Closed
\* with failureCount 0.
C10_SelfHealing ==
    /\ [](isCircuitOpen
            => (timers # <<>> /\ timers[Len(timers)] = RECOVERY_TIME - sinceOpen))
    /\ [][(timers # <<>> /\ timers' = Tail(timers))
            => (~isCircuitOpen' /\ failureCount' = 0)]_vars
    /\ (isCircuitOpen ~> (~isCircuitOpen /\ failureCount = 0))

C10_Witness ==
    /\ ~isCircuitOpen
    /\ failureCount = 0
    /\ sinceOpen = RECOVERY_TIME
    /\ timers = <<>>
    /\ isAvailable

\* C11: a store operation that succeeds while the breaker is Closed resets
\* failureCount to 0, so only consecutive failures accumulate.
C11_SuccessResetsCount ==
    [][(call.pc = "reading" /\ call'.pc = "done" /\ call'.outcome.kind = "return"
          /\ call'.storeReads = 1 /\ ~isCircuitOpen)
        => failureCount' = 0]_vars

\* C12: at most one recovery timer is pending in every reachable state.
C12_OneRecoveryScheduled ==
    Len(timers) <= 1

\* C20: a failure counted while the breaker is Open, whichever in-flight
\* operation or event it comes from, leaves the breaker Open and the pending
\* recovery timers and the running window as they were.
C20_FailureWhileOpenChangesNothing ==
    [][(isCircuitOpen /\ failureCount' = failureCount + 1)
        => /\ isCircuitOpen'
           /\ timers' = timers
           /\ sinceOpen' = sinceOpen
           /\ isAvailable' = FALSE]_vars

C20_Witness ==
    /\ isCircuitOpen
    /\ failureCount > FAILURE_THRESHOLD
    /\ Len(timers) = 1
    /\ inflight > 0
    /\ call.name = "getData" /\ call.readError /\ ~call.startOpen

\* C13: a direct operation that starts while the client is not ready or the
\* breaker is Open has returned its fallback (get null, set nothing, delete 0,
\* exists and setTTL false, getTTL -2) without a store command and without
\* raising; one that starts with the client ready and the breaker Closed goes
\* on to the store.
C13_GateAndFallbacks ==
    LET fallback == CASE call.name = "getData" -> VNull
                      [] call.name = "setData" -> VUndefined
                      [] call.name = "deleteData" -> VInt(0)
                      [] call.name = "exists" -> VBool(FALSE)
                      [] call.name = "setTTL" -> VBool(FALSE)
                      [] call.name = "getTTL" -> VInt(-2)
    IN  call.name \in {"getData", "setData", "deleteData", "exists", "setTTL", "getTTL"}
        => IF call.startOpen \/ ~call.startReady
           THEN /\ call.pc = "done"
                /\ call.outcome = Returned(fallback)
                /\ call.storeReads = 0 /\ call.storeWrites = 0
           ELSE call.storeReads + call.storeWrites = 1 \/ StringifyThrows(call.value)

C13_Witness ==
    /\ call.name = "getTTL"
    /\ call.startReady /\ call.startOpen
    /\ call.outcome = Returned(VInt(-2))
    /\ store[keyPrefix \o call.key].present

\* C14: the step in which the store command of a direct operation fails adds
\* exactly 1 to failureCount, leaves the breaker Open if the count has reached
\* the threshold and otherwise as it was, and ends the operation by raising
\* the store's error.
C14_StoreFailureCountsAndRaises ==
    [][(~call.cmdFailed /\ call'.cmdFailed)
        => /\ failureCount' = failureCount + 1
           /\ isCircuitOpen' = (isCircuitOpen \/ failureCount' >= FAILURE_THRESHOLD)
           /\ call'.pc = "done"
           /\ call'.outcome = Thrown("StoreError")]_vars

C14_Witness ==
    /\ call.name = "deleteData"
    /\ call.cmdFailed
    /\ call.outcome.kind = "throw"
    /\ failureCount = FAILURE_THRESHOLD
    /\ isCircuitOpen

\* C15: a get with parseJson=true of an entry written by set returns the value
\* that was set, and a string is stored as its own text.
C15_CodecRoundTrip ==
    /\ \A k \in PhysKeys :
         (store[k].present /\ store[k].src.type = "string") => store[k].raw = store[k].src.text
    /\ (/\ call.name = "getData" /\ call.pc = "done" /\ call.parseJson
        /\ call.outcome.kind = "return"
        /\ call.readSrc # NoValue)
       => call.outcome.val = call.readSrc

\* C16: getTTL on an available cache returns -2 for a key that is not there,
\* -1 for a key whose last set asked for no expiry, and a positive number no
\* greater than the ttl of its last set otherwise (no setTTL since).
C16_TtlSemantics ==
    [][(call.name = "getTTL" /\ call.pc = "timing" /\ call'.outcome.kind = "return")
        => LET entry == store[keyPrefix \o call.key] IN
           IF ~entry.present THEN call'.outcome.val = VInt(-2)
           ELSE IF entry.retimed THEN TRUE
           ELSE IF entry.reqTtl = 0 THEN call'.outcome.val = VInt(-1)
           ELSE \E n \in 1..entry.reqTtl : call'.outcome.val = VInt(n)]_vars

C16_Witness ==
    /\ call.name = "getTTL"
    /\ call.outcome = Returned(VInt(defaultTtl - defaultTtl \div TtlSteps))
    /\ ~store[keyPrefix \o call.key].retimed

\* C17: every store command of a key operation is addressed to prefix+key and
\* nothing is stored under the bare key; a successful set leaves the value
\* under prefix+key, a delete returns 1 for a present key and 0 for an absent
\* one and leaves the key absent, and a get of an absent key returns null.
C17_PrefixedKeysCompose ==
    [][/\ call'.addr # "" => call'.addr = keyPrefix \o call'.key
       /\ \A k \in Keys : ~store'[k].present
       /\ (call.name = "setData" /\ call.pc = "writing" /\ call'.outcome.kind = "return")
          => /\ store'[keyPrefix \o call.key].present
             /\ store'[keyPrefix \o call.key].src = call.value
       /\ (call.name = "deleteData" /\ call.pc = "deleting" /\ call'.outcome.kind = "return")
          => /\ call'.outcome.val = VInt(IF store[keyPrefix \o call.key].present THEN 1 ELSE 0)
             /\ ~store'[keyPrefix \o call.key].present
       /\ (/\ call.name = "getData" /\ call.pc = "reading" /\ call'.outcome.kind = "return"
           /\ ~store[keyPrefix \o call.key].present)
          => call'.outcome.val = VNull]_vars

C17_Witness ==
    /\ call.name = "deleteData"
    /\ call.outcome = Returned(VInt(1))
    /\ call.addr = keyPrefix \o call.key
    /\ ~store[call.addr].present

\* C18: a publish or subscribe that starts while the cache is unavailable has
\* returned without error, and only a publish (subscribe) that started
\* available ever sends a message (registers a listener): what it sends is the
\* encoded message on the channel name as given, without the key prefix.
C18_PubSubGate ==
    [][/\ (call'.name \in {"publish", "subscribe"} /\ (call'.startOpen \/ ~call'.startReady))
          => /\ call'.pc = "done"
             /\ call'.outcome = Returned(VUndefined)
       /\ published' # published
          => /\ call.name = "publish" /\ call.startReady /\ ~call.startOpen
             /\ published' = published \cup
                  {<<call.key, IF call.value.type = "string" THEN call.value.text
                               ELSE JsonStringify(call.value)>>}
       /\ listeners' # listeners
          => /\ call.name = "subscribe" /\ call.startReady /\ ~call.startOpen
             /\ listeners' = listeners \cup {call.key}
       /\ (call.pc = "publishing" /\ call'.outcome.kind = "return")
          => \E m \in published' : m[1] = call.key]_vars

C18_Witness ==
    /\ <<"user-events", "{\"id\":1}">> \in published
    /\ "user-events" \in listeners
    /\ call.name = "publish"
    /\ call.startOpen
    /\ call.outcome = Returned(VUndefined)

\* C19: the configuration that operations and getConfig observe changes only
\* by initialisation, whatever callers do to the objects getConfig gave them.
C19_DefensiveCopy ==
    [][initPhase' = initPhase
        => /\ currentConfig' = currentConfig
           /\ sockets'[currentConfig'.socket] = sockets[currentConfig.socket]]_vars

\* C21: a getOrSet call never has both a read error and a write error; the
\* step in which its read fails adds exactly 1 to failureCount, no later step
\* of that call adds more, and the call ends with the outcome of compute
\* without having attempted a write.
C21_ReadErrorCountedOnce ==
    [][/\ call'.name = "getOrSet" => ~(call'.readError /\ call'.writeError # "")
       /\ (call.name = "getOrSet" /\ call.pc = "reading" /\ call'.readError)
          => failureCount' = failureCount + 1
       /\ (call.name = "getOrSet" /\ call.readError /\ call' # call)
          => failureCount' = failureCount
       /\ (call'.name = "getOrSet" /\ call'.readError)
          => /\ call'.storeWrites = 0
             /\ call'.pc = "done" => call'.outcome = call'.lastCompute]_vars

C21_Witness ==
    /\ GetOrSetDone
    /\ call.readError
    /\ call.outcome.kind = "return"
    /\ call.outcome.val = VObj
    /\ call.storeWrites = 0
    /\ failureCount = 1

\* C22: on a miss, when compute returns null or undefined, getOrSet ends in
\* that step with that result, has issued no write, and the store is as it was.
C22_NullResultNotWritten ==
    [][(/\ call.name = "getOrSet" /\ call.pc = "handler"
        /\ call'.lastCompute.kind = "return"
        /\ call'.lastCompute.val \in {VNull, VUndefined})
        => /\ call'.pc = "done"
           /\ call'.outcome = call'.lastCompute
           /\ call'.storeWrites = 0
           /\ store' = store]_vars

C22_Witness ==
    /\ GetOrSetDone
    /\ ~call.startOpen /\ call.startReady
    /\ call.storeReads = 1 /\ ~call.readError
    /\ call.computeCalls = 1
    /\ call.outcome = Returned(VUndefined)
    /\ ~store[keyPrefix \o call.key].present

\* C23: in every reachable state a Closed breaker has counted fewer failures
\* than the threshold.
C23_ClosedBelowThreshold ==
    ~isCircuitOpen => failureCount < FAILURE_THRESHOLD

C23_Witness ==
    /\ ~isCircuitOpen
    /\ failureCount = FAILURE_THRESHOLD - 1
    /\ timers # <<>>
    /\ inflight > 0

\* C24: failureCount grows only in a step where a store or transport command
\* fails or a client 'error' event arrives, and a set or publish that raises
\* because its value cannot be serialized leaves failureCount and the breaker
\* as they were.
C24_SerializationNotCounted ==
    [][/\ failureCount' > failureCount
          => (call' = call \/ (call'.cmdFailed /\ ~call.cmdFailed))
       /\ (/\ call'.name \in {"setData", "publish"}
           /\ call' # call
           /\ call'.outcome = Thrown("TypeError"))
          => /\ failureCount' = failureCount
             /\ isCircuitOpen' = isCircuitOpen]_vars

\* C25: for the latest message delivered to a subscribed channel the callback
\* was invoked exactly once, with the decoded value when the message is JSON
\* and with the raw string otherwise.
C25_CallbackExactlyOnce ==
    delivery # NoDelivery
    => /\ Len(delivery.calls) = 1
       /\ delivery.calls[1] = IF JsonParses(delivery.message)
                              THEN JsonParse(delivery.message)
                              ELSE VStr(delivery.message)

====
